---- MODULE Spec2Model ----
(***************************************************************************)
(* Model of hi_rss_generator.py: the producer thread get_episodes, the     *)
(* enrichment tasks generate_episode, the ThreadPoolExecutor they run on   *)
(* and the control loop of main that dispatches, collects and assembles.   *)
(***************************************************************************)
EXTENDS Integers, Sequences, FiniteSets, TLC

\* ------------------------------------------------------------------ bounds
\* Largest number of pages on the link chain that starts at the first page.
MaxChain == 3
\* Largest first_episode_index tried.
MaxFirst == 2
\* Largest last_episode_index tried (the smallest tried is -1).
MaxLast == 3
\* Largest worker-pool width tried.
MaxWorkers == 2
\* Largest `total` of the retry strategy tried (the program sets 10).
MaxRetryTotal == 4

VARIABLES
    first_episode_index,  \* --first
    last_episode_index,   \* --last: None or Some(n)
    max_workers,          \* --max_workers
    chain,                \* the site: pages 1..chain follow each other by prevLink
    episode_index,        \* get_episodes local
    episode_url,          \* get_episodes local: None or Some(page)
    episode_queue,        \* module-level queue.Queue
    emitted,              \* history: every EpisodeInfo put on episode_queue, in order
    futures,              \* every future the executor created: id -> [state, result, args]
    work_queue,           \* the executor's FIFO of futures no worker has taken yet
    future_to_episode,    \* main local: future id -> label
    done,                 \* main local: what is left to iterate of `done`
    pc,                   \* position of the control task in main
    processed_episodes,   \* main local
    failed_episodes,      \* main local
    podcast_episodes,     \* podcast.episodes
    rss_writes,           \* history: the documents podcast.rss_file wrote, in order
    retry_total,          \* Retry(total=...) of retry_strategy
    retries_left,         \* the `total` of the Retry object of the request in progress
    responses,            \* history: the status of every HTTP response, in order
    sleeps,               \* history: the backoff slept before every retry, in order
    fetch_pc,             \* position of get_page_from_url
    fetched_page          \* what get_page_from_url returned: None or Some(status)

fetchVars == << retry_total, retries_left, responses, sleeps, fetch_pc, fetched_page >>

vars == << first_episode_index, last_episode_index, max_workers, chain,
           episode_index, episode_url, episode_queue, emitted, futures,
           work_queue, future_to_episode, done, pc, processed_episodes,
           failed_episodes, podcast_episodes, rss_writes, fetchVars >>

params == << first_episode_index, last_episode_index, max_workers, chain >>
producerVars == << episode_index, episode_url >>
resultVars == << processed_episodes, failed_episodes >>
outputVars == << podcast_episodes, rss_writes >>

\* ------------------------------------------------------------------ values
\* Python's None and a present value, as sequences of length 0 and 1.
None == << >>
Some(v) == << v >>
Value(o) == o[1]

\* Python truthiness of an optional int: None and 0 are falsy.
Truthy(o) == o # None /\ Value(o) # 0

\* The namedtuple EpisodeInfo; `kind` is the runtime type isinstance tests.
EpisodeInfo(index, title, url) ==
    [kind |-> "EpisodeInfo", index |-> index, title |-> title, url |-> url]

\* The label of the producer's future, the str "PRODUCER".
PRODUCER == [kind |-> "str", index |-> 0, title |-> 0, url |-> 0]

\* The id of the producer's future: the first one the executor creates.
ProducerFuture == 0

\* What a finished call left in its future.
NoneResult == [kind |-> "NoneType", title |-> 0, link |-> 0]
ExceptionResult == [kind |-> "Exception", title |-> 0, link |-> 0]
Episode(title, link) == [kind |-> "Episode", title |-> title, link |-> link]

\* ------------------------------------------------------------------ the site
\* The title in the h1 of page p.
TitleOf(p) == p

\* The page the prevLink of page p leads to, None on the last page of the chain.
PrevLink(p, n) == IF p < n THEN Some(p + 1) ELSE None

\* What an enrichment task can find at its page.
PageStates == {"good", "unretrievable", "no_structure"}

\* ------------------------------------------------------------------ retry strategy
\* Retry(total=10, ...): the maximum number of retries.
RetryTotal == 10
\* Retry(backoff_factor=2, ...)
BackoffFactor == 2
\* Retry(status_forcelist=[429, 500, 502, 503, 504], ...)
StatusForcelist == {429, 500, 502, 503, 504}

\* ------------------------------------------------------------------ Init
Init ==
    /\ first_episode_index \in 1..MaxFirst
    /\ last_episode_index \in {None} \cup {Some(n) : n \in (0 - 1)..MaxLast}
    /\ max_workers \in 1..MaxWorkers
    /\ chain \in 1..MaxChain
    /\ episode_index = 0
    /\ episode_url = None
    /\ episode_queue = << >>
    /\ emitted = << >>
    /\ futures = (ProducerFuture :> [state |-> "pending", result |-> NoneResult, args |-> PRODUCER])
    /\ work_queue = << ProducerFuture >>
    /\ future_to_episode = (ProducerFuture :> PRODUCER)
    /\ done = {}
    /\ pc = "wait"
    /\ processed_episodes = << >>
    /\ failed_episodes = << >>
    /\ podcast_episodes = << >>
    /\ rss_writes = << >>
    /\ retry_total = RetryTotal
    /\ retries_left = RetryTotal
    /\ responses = << >>
    /\ sleeps = << >>
    /\ fetch_pc = "idle"
    /\ fetched_page = None

\* ------------------------------------------------------------------ executor
\* The futures some worker thread is executing now.
Running == { f \in DOMAIN futures : futures[f].state = "running" }

\* Whether future f has finished (returned or raised).
Finished(f) == futures[f].state = "finished"

\* Mutant of CanStart: the pool starts a call whenever one is pending.
CanStart_Unbounded == TRUE

\* Mutant of CanStart: the producer runs beside the pool and takes no slot of it.
CanStart_EnrichmentsOnly == Cardinality(Running \ {ProducerFuture}) < max_workers

\* Mutant of CanStart: one worker of the pool is never used.
CanStart_ReservedSlot == Cardinality(Running) < max_workers - 1

\* A worker thread is free to take the next work item: the pool never runs
\* more than max_workers calls at a time.
CanStart == Cardinality(Running) < max_workers

\* `futs` after the call of future f ended with result r.
SetResult(futs, f, r) == [futs EXCEPT ![f] = [@ EXCEPT !.state = "finished", !.result = r]]

\* A worker thread takes the oldest pending work item and starts its call; the
\* producer's call begins by setting its locals (lines 61-63).
WorkerStart ==
    /\ work_queue # << >>
    /\ CanStart
    /\ LET f == Head(work_queue) IN
        /\ futures' = [futures EXCEPT ![f].state = "running"]
        /\ work_queue' = Tail(work_queue)
        /\ IF f = ProducerFuture
           THEN /\ episode_index' = first_episode_index
                /\ episode_url' = Some(1)
           ELSE UNCHANGED producerVars
    /\ UNCHANGED << fetchVars, params, episode_queue, emitted, future_to_episode, done, pc,
                    resultVars, outputVars >>

\* ------------------------------------------------------------------ get_episodes
\* The condition of the while loop of get_episodes.
LoopCond(index, end, url) ==
    /\ IF Truthy(end) THEN index <= Value(end) ELSE url # None
    /\ url # None

ProducerRunning == futures[ProducerFuture].state = "running"

\* Mutant of NextIndex: the index advances by two.
NextIndex_Skip(index) == index + 2

\* episode_index += 1
NextIndex(index) == index + 1

\* One pass of the loop body: the page is fetched and parsed, the EpisodeInfo
\* is put on the queue, the index and the url advance.
ProducerEmit ==
    /\ ProducerRunning
    /\ LoopCond(episode_index, last_episode_index, episode_url)
    /\ LET page == Value(episode_url)
           episode_info == EpisodeInfo(episode_index, TitleOf(page), page)
       IN /\ episode_queue' = Append(episode_queue, episode_info)
          /\ emitted' = Append(emitted, episode_info)
          /\ episode_index' = NextIndex(episode_index)
          /\ episode_url' = PrevLink(page, chain)
    /\ UNCHANGED << fetchVars, params, futures, work_queue, future_to_episode, done, pc,
                    resultVars, outputVars >>

\* The page cannot be fetched (get_page_from_url returns None) or has no title:
\* the attribute access raises and the producer's call ends with the exception.
ProducerFail ==
    /\ ProducerRunning
    /\ LoopCond(episode_index, last_episode_index, episode_url)
    /\ futures' = SetResult(futures, ProducerFuture, ExceptionResult)
    /\ UNCHANGED << fetchVars, params, producerVars, episode_queue, emitted, work_queue,
                    future_to_episode, done, pc, resultVars, outputVars >>

\* The loop condition is false: get_episodes returns None.
ProducerReturn ==
    /\ ProducerRunning
    /\ ~LoopCond(episode_index, last_episode_index, episode_url)
    /\ futures' = SetResult(futures, ProducerFuture, NoneResult)
    /\ UNCHANGED << fetchVars, params, producerVars, episode_queue, emitted, work_queue,
                    future_to_episode, done, pc, resultVars, outputVars >>

\* ------------------------------------------------------------------ generate_episode
\* What generate_episode ends with for episode_info when its page is in state
\* `page`: an Episode, or the exception of the first failing access.
GenerateEpisode(episode_info, page) ==
    IF page = "good"
    THEN Episode(episode_info.title, episode_info.url)
    ELSE ExceptionResult

\* Mutant of EnrichFinish: the task appends its episode to processed_episodes itself.
EnrichFinish_Records(f) ==
    /\ f # ProducerFuture
    /\ futures[f].state = "running"
    /\ \E page \in PageStates :
          /\ futures' = SetResult(futures, f, GenerateEpisode(futures[f].args, page))
          /\ processed_episodes' =
                IF page = "good"
                THEN Append(processed_episodes, << futures[f].args, futures'[f].result >>)
                ELSE processed_episodes
    /\ UNCHANGED << fetchVars, params, producerVars, episode_queue, emitted, work_queue,
                    future_to_episode, done, pc, failed_episodes, outputVars >>

\* The call of a running enrichment task ends.
EnrichFinish(f) ==
    /\ f # ProducerFuture
    /\ futures[f].state = "running"
    /\ \E page \in PageStates :
          futures' = SetResult(futures, f, GenerateEpisode(futures[f].args, page))
    /\ UNCHANGED << fetchVars, params, producerVars, episode_queue, emitted, work_queue,
                    future_to_episode, done, pc, resultVars, outputVars >>

\* ------------------------------------------------------------------ main
\* The futures of the registry that have finished.
FinishedOf(registry) == { f \in DOMAIN registry : Finished(f) }

\* Mutants of Pop: the whole registry is cleared; the entry is left in.
Pop_Clear(registry, f) == [g \in {} |-> registry[g]]
Pop_Keep(registry, f) == registry

\* `registry` without the entry of future f (dict.pop).
Pop(registry, f) == [g \in (DOMAIN registry) \ {f} |-> registry[g]]

\* The id the executor gives its next future.
NextFuture == Cardinality(DOMAIN futures)

\* concurrent.futures.wait, on entry: the futures of the registry that have
\* finished already are returned at once; with none, the call blocks.
WaitCheck ==
    /\ pc = "wait"
    /\ IF FinishedOf(future_to_episode) # {}
       THEN /\ done' = FinishedOf(future_to_episode)
            /\ pc' = "drain"
       ELSE /\ done' = {}
            /\ pc' = "waiting"
    /\ UNCHANGED << fetchVars, params, producerVars, episode_queue, emitted, futures,
                    work_queue, future_to_episode, resultVars, outputVars >>

\* concurrent.futures.wait, blocked: it returns at the first completion or after
\* the timeout of 1 s, with the futures its waiter saw finish (none at a
\* timeout; those that finish while it unregisters may or may not be in).
WaitReturn ==
    /\ pc = "waiting"
    /\ \E d \in SUBSET FinishedOf(future_to_episode) : done' = d
    /\ pc' = "drain"
    /\ UNCHANGED << fetchVars, params, producerVars, episode_queue, emitted, futures,
                    work_queue, future_to_episode, resultVars, outputVars >>

\* Mutants of DrainCheck: the queue is not drained in a pass that has completed
\* futures to process; the queue is taken from without the test (while True).
DrainCheck_SkipWhenDone ==
    /\ pc = "drain"
    /\ pc' = IF episode_queue # << >> /\ done = {} THEN "take" ELSE "process"
    /\ UNCHANGED << fetchVars, params, producerVars, episode_queue, emitted, futures,
                    work_queue, future_to_episode, done, resultVars, outputVars >>
DrainCheck_AlwaysTake ==
    /\ pc = "drain"
    /\ pc' = "take"
    /\ UNCHANGED << fetchVars, params, producerVars, episode_queue, emitted, futures,
                    work_queue, future_to_episode, done, resultVars, outputVars >>

\* The test of `while not episode_queue.empty()`.
DrainCheck ==
    /\ pc = "drain"
    /\ pc' = IF episode_queue # << >> THEN "take" ELSE "process"
    /\ UNCHANGED << fetchVars, params, producerVars, episode_queue, emitted, futures,
                    work_queue, future_to_episode, done, resultVars, outputVars >>

\* executor.submit(generate_episode, episode_info, ...): a new pending future at
\* the tail of the executor's work queue; never refused while the pool is open.
Submit(futs, f, episode_info) ==
    futs @@ (f :> [state |-> "pending", result |-> NoneResult, args |-> episode_info])

\* episode_queue.get(), which blocks on an empty queue, then the submit and the
\* registration of the new future under its episode_info.
DrainTake ==
    /\ pc = "take"
    /\ episode_queue # << >>
    /\ LET episode_info == Head(episode_queue)
           f == NextFuture
       IN /\ episode_queue' = Tail(episode_queue)
          /\ futures' = Submit(futures, f, episode_info)
          /\ work_queue' = Append(work_queue, f)
          /\ future_to_episode' = future_to_episode @@ (f :> episode_info)
    /\ pc' = "drain"
    /\ UNCHANGED << fetchVars, params, producerVars, emitted, done, resultVars, outputVars >>

\* Mutant of Raises: the exception of any future is raised again.
Raises_AnyException(label, result) == result.kind = "Exception"

\* Whether processing a future with this label and result raises out of main.
Raises(label, result) == result.kind = "Exception" /\ label.kind # "EpisodeInfo"

\* Mutant of RecordFailed: the failure is printed and not kept.
RecordFailed_Dropped(failed, label, result) == failed

\* failed_episodes after a future with this label and result was processed.
RecordFailed(failed, label, result) ==
    IF result.kind = "Exception" /\ label.kind = "EpisodeInfo"
    THEN Append(failed, << label, result >>)
    ELSE failed

\* processed_episodes after a future with this label and result was processed.
RecordProcessed(processed, label, result) ==
    IF result.kind = "Episode"
    THEN Append(processed, << label, result >>)
    ELSE processed

\* One pass of `for future in done`, the set iterated in any order: the result
\* of the future is recorded and its entry popped, or the producer's exception
\* is raised again and leaves the loop and the with block.
ProcessFuture ==
    /\ pc = "process"
    /\ \E future \in done :
        LET episode_info == future_to_episode[future]
            result == futures[future].result
        IN IF Raises(episode_info, result)
           THEN /\ pc' = "raising"
                /\ UNCHANGED << future_to_episode, done, resultVars >>
           ELSE /\ failed_episodes' = RecordFailed(failed_episodes, episode_info, result)
                /\ processed_episodes' = RecordProcessed(processed_episodes, episode_info, result)
                /\ future_to_episode' = Pop(future_to_episode, future)
                /\ done' = done \ {future}
                /\ pc' = "process"
    /\ UNCHANGED << fetchVars, params, producerVars, episode_queue, emitted, futures,
                    work_queue, outputVars >>

\* Whether the outer loop goes round again: `while future_to_episode`.
LoopAgain(registry) == DOMAIN registry # {}

\* `done` is exhausted: the test of the outer while loop.
LoopTest ==
    /\ pc = "process"
    /\ done = {}
    /\ pc' = IF LoopAgain(future_to_episode) THEN "wait" ELSE "exit"
    /\ UNCHANGED << fetchVars, params, producerVars, episode_queue, emitted, futures,
                    work_queue, future_to_episode, done, resultVars, outputVars >>

\* Whether every call the executor was given has ended.
AllSettled == work_queue = << >> /\ Running = {}

\* The end of the with block, ThreadPoolExecutor.__exit__: shutdown(wait=True)
\* lets the workers run every pending work item and joins them; then main goes
\* on, or the exception raised in the block propagates out of main.
ExecutorExit ==
    /\ pc \in {"exit", "raising"}
    /\ AllSettled
    /\ pc' = IF pc = "exit" THEN "assemble" ELSE "fatal"
    /\ UNCHANGED << fetchVars, params, producerVars, episode_queue, emitted, futures,
                    work_queue, future_to_episode, done, resultVars, outputVars >>

\* ------------------------------------------------------------------ assembly
\* s with entry x inserted behind every entry whose index is not greater.
RECURSIVE InsertByIndex(_, _)
InsertByIndex(s, x) ==
    IF s = << >> THEN << x >>
    ELSE IF Head(s)[1].index <= x[1].index
         THEN << Head(s) >> \o InsertByIndex(Tail(s), x)
         ELSE << x >> \o s

\* Mutant of SortByIndex: the list stays in completion order.
SortByIndex_Unsorted(s) == s

\* list.sort(key=lambda episode: episode[0].index): ascending and stable.
RECURSIVE SortByIndex(_)
SortByIndex(s) ==
    IF s = << >> THEN << >>
    ELSE InsertByIndex(SortByIndex(SubSeq(s, 1, Len(s) - 1)), s[Len(s)])

\* reversed(s)
Reversed(s) == [i \in 1..Len(s) |-> s[Len(s) + 1 - i]]

\* podcast.episodes after the loop that appends episode[1] of every entry.
AppendEpisodes(episodes, entries) ==
    episodes \o [i \in 1..Len(entries) |-> entries[i][2]]

\* Mutants of WriteFeed: the feed is written twice; an empty feed is not written.
WriteFeed_Twice(writes, episodes) == Append(Append(writes, episodes), episodes)
WriteFeed_SkipEmpty(writes, episodes) ==
    IF episodes = << >> THEN writes ELSE Append(writes, episodes)

\* What is written after the with block: the documents written so far and the
\* one podcast.rss_file serializes now.
WriteFeed(writes, episodes) == Append(writes, episodes)

\* After the with block: sort, fill the podcast newest first, write the feed
\* and print the two reports.
Assemble ==
    /\ pc = "assemble"
    /\ processed_episodes' = SortByIndex(processed_episodes)
    /\ podcast_episodes' = AppendEpisodes(podcast_episodes, Reversed(processed_episodes'))
    /\ rss_writes' = WriteFeed(rss_writes, podcast_episodes')
    /\ pc' = "end"
    /\ UNCHANGED << fetchVars, params, producerVars, episode_queue, emitted, futures,
                    work_queue, future_to_episode, done, failed_episodes >>

\* ------------------------------------------------------------------ specification
Next ==
    \/ WorkerStart
    \/ ProducerEmit
    \/ ProducerFail
    \/ ProducerReturn
    \/ \E f \in DOMAIN futures : EnrichFinish(f)
    \/ WaitCheck
    \/ WaitReturn
    \/ DrainCheck
    \/ DrainTake
    \/ ProcessFuture
    \/ LoopTest
    \/ ExecutorExit
    \/ Assemble

Spec == Init /\ [][Next]_vars

\* The steps of the three kinds of thread.
ProducerStep == ProducerEmit \/ ProducerFail \/ ProducerReturn
EnrichStep == \E f \in DOMAIN futures : EnrichFinish(f)
ControlStep ==
    \/ WaitCheck \/ WaitReturn \/ DrainCheck \/ DrainTake
    \/ ProcessFuture \/ LoopTest \/ ExecutorExit \/ Assemble

\* The pipeline with its scheduling: a free worker takes pending work, a call
\* that is running goes on to its end (no fetch lasts for ever, the retries are
\* bounded), and the control thread keeps running (wait has a timeout).
\* The runs by default arguments for the indices (--first 1, no --last): the
\* number of items, which is what the scheduling depends on, is that of the chain.
InitFair ==
    /\ Init
    /\ first_episode_index = 1
    /\ last_episode_index = None

FairSpec ==
    /\ InitFair
    /\ [][Next]_vars
    /\ WF_vars(WorkerStart)
    /\ WF_vars(ProducerStep)
    /\ WF_vars(EnrichStep)
    /\ WF_vars(ControlStep)

\* ------------------------------------------------------------------ get_page_from_url
\* The statuses the site answers a request with.
Statuses == {200, 404, 429, 503}

\* The variables of the pipeline, which a fetch leaves alone.
pipelineVars == << params, producerVars, episode_queue, emitted, futures, work_queue,
                   future_to_episode, done, pc, resultVars, outputVars >>

RECURSIVE Pow2(_)
Pow2(n) == IF n <= 0 THEN 1 ELSE 2 * Pow2(n - 1)

\* Retry.is_retry for a GET: the status is one of status_forcelist.
IsRetry(status) == status \in StatusForcelist

\* Mutant of IsExhausted: the last retry allowed is not made.
IsExhausted_OneEarly(left) == left <= 0

\* Retry.is_exhausted after an increment: more retries were used than `total`.
IsExhausted(left) == left < 0

\* Retry.get_backoff_time after `errors` consecutive retried responses: nothing
\* before the first retry, then backoff_factor * 2^(errors - 1), at most 120 s.
GetBackoffTime(errors) ==
    IF errors <= 1 THEN 0
    ELSE IF BackoffFactor * Pow2(errors - 1) < 120
         THEN BackoffFactor * Pow2(errors - 1)
         ELSE 120

\* page.raise_for_status(): a status of 400 or more raises, and
\* get_page_from_url returns None; otherwise it returns the page.
PageOrNone(status) == IF status >= 400 THEN None ELSE Some(status)

\* One HTTP request of request_session.get and what the mounted adapter does
\* with the response: a status of the forcelist uses up one retry and, unless
\* the retries are exhausted (the RetryError is caught and None returned), is
\* retried after the backoff; any other status ends the fetch.
FetchRequest ==
    /\ fetch_pc = "request"
    /\ \E status \in Statuses :
        /\ responses' = Append(responses, status)
        /\ IF IsRetry(status)
           THEN /\ retries_left' = retries_left - 1
                /\ fetched_page' = None
                /\ fetch_pc' = IF IsExhausted(retries_left') THEN "done" ELSE "sleep"
           ELSE /\ retries_left' = retries_left
                /\ fetched_page' = PageOrNone(status)
                /\ fetch_pc' = "done"
    /\ UNCHANGED << pipelineVars, retry_total, sleeps >>

\* Retry.sleep before the next attempt.
FetchSleep ==
    /\ fetch_pc = "sleep"
    /\ sleeps' = Append(sleeps, GetBackoffTime(Len(responses)))
    /\ fetch_pc' = "request"
    /\ UNCHANGED << pipelineVars, retry_total, retries_left, responses, fetched_page >>

\* One call of get_page_from_url, for every `total` up to MaxRetryTotal.
InitFetch ==
    /\ first_episode_index = 1
    /\ last_episode_index = None
    /\ max_workers = 1
    /\ chain = 1
    /\ episode_index = 0
    /\ episode_url = None
    /\ episode_queue = << >>
    /\ emitted = << >>
    /\ futures = (ProducerFuture :> [state |-> "pending", result |-> NoneResult, args |-> PRODUCER])
    /\ work_queue = << ProducerFuture >>
    /\ future_to_episode = (ProducerFuture :> PRODUCER)
    /\ done = {}
    /\ pc = "wait"
    /\ processed_episodes = << >>
    /\ failed_episodes = << >>
    /\ podcast_episodes = << >>
    /\ rss_writes = << >>
    /\ retry_total \in 0..MaxRetryTotal
    /\ retries_left = retry_total
    /\ responses = << >>
    /\ sleeps = << >>
    /\ fetch_pc = "request"
    /\ fetched_page = None

NextFetch == FetchRequest \/ FetchSleep

SpecFetch == InitFetch /\ [][NextFetch]_vars

\* ------------------------------------------------------------------ types
TypeOK ==
    /\ pc \in {"wait", "waiting", "drain", "take", "process", "exit", "raising",
               "assemble", "end", "fatal"}
    /\ DOMAIN futures = 0..(Cardinality(DOMAIN futures) - 1)
    /\ \A f \in DOMAIN futures : futures[f].state \in {"pending", "running", "finished"}
    /\ DOMAIN future_to_episode \subseteq DOMAIN futures
    /\ done \subseteq DOMAIN future_to_episode

\* ------------------------------------------------------------------ vocabulary of the claims
Range(s) == { s[i] : i \in 1..Len(s) }
Min(a, b) == IF a <= b THEN a ELSE b

\* The indices of a list of EpisodeInfo, and of a list of (EpisodeInfo, x) pairs.
IndicesOf(s) == [i \in 1..Len(s) |-> s[i].index]
EntryIndices(s) == [i \in 1..Len(s) |-> s[i][1].index]

\* The enrichment futures, and those whose call ended either way.
Enrichments == (DOMAIN futures) \ {ProducerFuture}
Succeeded == { f \in Enrichments : Finished(f) /\ futures[f].result.kind = "Episode" }
Failed == { f \in Enrichments : Finished(f) /\ futures[f].result.kind = "Exception" }

ProducerReturned ==
    Finished(ProducerFuture) /\ futures[ProducerFuture].result.kind = "NoneType"
ProducerFailed ==
    Finished(ProducerFuture) /\ futures[ProducerFuture].result.kind = "Exception"

\* The control task has left the while loop, by its test or by the raise.
LoopEnded == pc \in {"exit", "raising", "assemble", "end", "fatal"}
\* main has returned or has let the exception out.
Terminated == pc \in {"end", "fatal"}

\* How many entries of a list of (EpisodeInfo, x) pairs are about episode_info.
EntriesFor(s, episode_info) == Cardinality({ i \in 1..Len(s) : s[i][1] = episode_info })

\* The WorkItem index of an episode of the document: that of the emitted item
\* it was generated from.
IndexOfEpisode(e) ==
    (CHOOSE x \in Range(emitted) : x.title = e.title /\ x.url = e.link).index
DocumentIndices(doc) == [i \in 1..Len(doc) |-> IndexOfEpisode(doc[i])]

StrictlyDescending(s) == \A i, j \in 1..Len(s) : i < j => s[i] > s[j]

\* ------------------------------------------------------------------ claims
\* C1: once the Scheduler loop has ended, the number of entries of
\* processed_episodes plus the number of entries of failed_episodes equals the
\* number of EpisodeInfo the producer put on episode_queue.
C1_CountsEqualEmitted ==
    LoopEnded => Len(processed_episodes) + Len(failed_episodes) = Len(emitted)

\* What does hold of the counts: they match whenever the loop ended by its own
\* test, which is when the producer returned.
CountsEqualEmittedOnNormalEnd ==
    (LoopEnded /\ pc \notin {"raising", "fatal"}) =>
        Len(processed_episodes) + Len(failed_episodes) = Len(emitted)

\* C2: the episodes of the written document are in strictly descending order of
\* the index of the WorkItem each was generated from, whatever the order of
\* completion and the pool width.
C2_DocumentDescending ==
    pc = "end" =>
        /\ rss_writes # << >>
        /\ \A w \in 1..Len(rss_writes) : StrictlyDescending(DocumentIndices(rss_writes[w]))

\* C2 witness: a run of pool width 1 has written a document of two episodes or more.
C2_Witness ==
    /\ pc = "end"
    /\ max_workers = 1
    /\ rss_writes # << >>
    /\ Len(rss_writes[1]) >= 2

\* C3: when the producer finished normally, the document holds exactly the
\* episodes of the enrichments that succeeded, newest first, and the failure
\* list exactly the WorkItems of those that failed; every emitted WorkItem is
\* one or the other.
C3_ExactlySucceededAndFailed ==
    pc = "end" =>
        /\ Len(rss_writes) = 1
        /\ Len(rss_writes[1]) = Cardinality(Succeeded)
        /\ Range(rss_writes[1]) = { futures[f].result : f \in Succeeded }
        /\ StrictlyDescending(DocumentIndices(rss_writes[1]))
        /\ Len(failed_episodes) = Cardinality(Failed)
        /\ { failed_episodes[i][1] : i \in 1..Len(failed_episodes) }
               = { futures[f].args : f \in Failed }
        /\ { futures[f].args : f \in Succeeded \cup Failed } = Range(emitted)

\* C3 witness: indices 1, 2, 3 were emitted, 2 failed and 1, 3 succeeded; the
\* document is [3, 1] and the failure list is [2].
C3_Witness ==
    /\ pc = "end"
    /\ IndicesOf(emitted) = << 1, 2, 3 >>
    /\ { futures[f].args.index : f \in Failed } = {2}
    /\ { futures[f].args.index : f \in Succeeded } = {1, 3}
    /\ Len(rss_writes) = 1
    /\ DocumentIndices(rss_writes[1]) = << 3, 1 >>
    /\ EntryIndices(failed_episodes) = << 2 >>

\* C4: in a run whose producer failed after emitting some items, the run ends
\* with the fatal error and every enrichment task dispatched for an emitted
\* item has its result in processed_episodes or failed_episodes.
C4_FatalRunKeepsResults ==
    (Terminated /\ ProducerFailed) =>
        /\ pc = "fatal"
        /\ \A f \in Enrichments :
              EntriesFor(processed_episodes, futures[f].args)
                  + EntriesFor(failed_episodes, futures[f].args) = 1

\* What the code does keep of C4: the fatal error is reported and every
\* dispatched task is run to its end by the executor's shutdown.
FatalRunSettlesTasks ==
    (Terminated /\ ProducerFailed) =>
        /\ pc = "fatal"
        /\ \A f \in Enrichments : Finished(f)

C6_WrittenOnceInEveryRun ==
    Terminated => Len(rss_writes) = 1

\* C6 as amended: the feed is written at most once and only when the producer and
\* every enrichment task have finished; a run that ends normally has written it
\* once, a run that ends with the producer's fatal error has not written it.
C6_WrittenOnceAfterAllSettled ==
    /\ Len(rss_writes) <= 1
    /\ rss_writes # << >> =>
          /\ \A f \in DOMAIN futures : Finished(f)
          /\ work_queue = << >>
          /\ episode_queue = << >>
    /\ pc = "end" => Len(rss_writes) = 1
    /\ pc = "fatal" => rss_writes = << >>
    /\ (Terminated /\ ProducerReturned) => Len(rss_writes) = 1

\* C6 witness: the feed was written after the producer and two enrichment tasks.
C6_Witness ==
    /\ pc = "end"
    /\ Len(rss_writes) = 1
    /\ Cardinality(Enrichments) >= 2

\* C7: a run whose producer returned never ends by a raise, and when no
\* enrichment succeeded and one or more failed it ends normally having written
\* an empty feed.
C7_AllFailedStillWrites ==
    /\ ProducerReturned => pc \notin {"raising", "fatal"}
    /\ (Terminated /\ ProducerReturned /\ Succeeded = {} /\ Failed # {}) =>
          /\ pc = "end"
          /\ rss_writes = << << >> >>

\* C7 witness: a normal end with two failures, no success and the empty feed.
C7_Witness ==
    /\ pc = "end"
    /\ processed_episodes = << >>
    /\ Len(failed_episodes) >= 2
    /\ rss_writes = << << >> >>

\* C8: never more than max_workers calls execute at once; a task submitted
\* while every worker is busy waits in the executor's queue, exactly once, and
\* has been executed when the run is over.
C8_BoundedPoolQueues ==
    /\ Cardinality(Running) <= max_workers
    /\ Range(work_queue) = { f \in DOMAIN futures : futures[f].state = "pending" }
    /\ Cardinality(Range(work_queue)) = Len(work_queue)
    /\ Terminated => \A f \in DOMAIN futures : Finished(f)

\* C8 witness: max_workers enrichment tasks execute and another one is queued.
C8_Witness ==
    /\ Cardinality(Running \cap Enrichments) = max_workers
    /\ \E i \in 1..Len(work_queue) : work_queue[i] \in Enrichments

\* C9: the k-th EpisodeInfo put on the queue has index first_episode_index + k - 1,
\* and the queue holds the items put and not yet taken, in the order put.
C9_EmittedDenseIncreasing ==
    /\ \A k \in 1..Len(emitted) : emitted[k].index = first_episode_index + k - 1
    /\ Len(episode_queue) <= Len(emitted)
    /\ episode_queue = SubSeq(emitted, Len(emitted) - Len(episode_queue) + 1, Len(emitted))

\* C9 witness: three items were emitted from a first index of 2.
C9_Witness ==
    /\ first_episode_index = 2
    /\ IndicesOf(emitted) = << 2, 3, 4 >>

\* The indices C10 says a producer that returned has emitted.
ExpectedIndices ==
    IF last_episode_index = None
    THEN first_episode_index..(first_episode_index + chain - 1)
    ELSE first_episode_index..Min(Value(last_episode_index), first_episode_index + chain - 1)

\* C10: a producer that returned has emitted exactly the indices from
\* first_episode_index to the end of the chain, or to last_episode_index when
\* that is set and smaller, for every integer last_episode_index.
C10_StopsAtLastOrChainEnd ==
    ProducerReturned =>
        /\ Range(IndicesOf(emitted)) = ExpectedIndices
        /\ Len(emitted) = Cardinality(ExpectedIndices)

\* What the code does for C10: the same, except that a last_episode_index of 0
\* counts as not set.
StopsAtLastOrChainEndUnlessZero ==
    (ProducerReturned /\ last_episode_index # Some(0)) =>
        /\ Range(IndicesOf(emitted)) = ExpectedIndices
        /\ Len(emitted) = Cardinality(ExpectedIndices)

\* The fetch ended because the retries were used up.
RetriesExhausted == fetch_pc = "done" /\ IsExhausted(retries_left)

StrictlyAscending(s) == \A i, j \in 1..Len(s) : i < j => s[i] < s[j]

Outstanding == { f \in DOMAIN futures : ~Finished(f) }

\* C12: while the loop runs, the size of future_to_episode equals the number of
\* outstanding task handles, an entry leaving the instant its task finishes.
C12_RegistrySizeIsOutstanding ==
    ~LoopEnded => Cardinality(DOMAIN future_to_episode) = Cardinality(Outstanding)

\* C12 as amended: every outstanding task handle has its entry, under its own
\* label, so the registry is at least as large as their number; the entry of a
\* finished task stays until the control task pops it; and the registry is
\* empty only when the producer and every enrichment task it spawned have
\* finished, with nothing left on the queue.
C12_RegistryCoversOutstanding ==
    /\ Outstanding \subseteq DOMAIN future_to_episode
    /\ Cardinality(DOMAIN future_to_episode) >= Cardinality(Outstanding)
    /\ \A f \in DOMAIN future_to_episode : future_to_episode[f] = futures[f].args
    /\ DOMAIN future_to_episode = {} =>
          /\ \A f \in DOMAIN futures : Finished(f)
          /\ episode_queue = << >>
          /\ Cardinality(Enrichments) = Len(emitted)

\* C12 witness: the registry holds a finished enrichment task next to an
\* unfinished one.
C12_Witness ==
    \E f, g \in DOMAIN future_to_episode :
        /\ f \in Enrichments
        /\ Finished(f)
        /\ ~Finished(g)

\* C13: with every task finishing, the loop ends and main returns or lets the
\* fatal error out, for every pool width; and when the loop ends by its own test
\* the producer has returned, the queue is empty, every emitted item was
\* dispatched and every dispatched task has finished.
C13_LoopEnds ==
    /\ <>LoopEnded
    /\ <>Terminated
    /\ [](pc = "exit" =>
            /\ ProducerReturned
            /\ episode_queue = << >>
            /\ Cardinality(Enrichments) = Len(emitted)
            /\ \A f \in DOMAIN futures : Finished(f))

\* C13 witness: with a pool of width 1 the loop ended by its own test after two
\* or more enrichment tasks.
C13_Witness ==
    /\ pc = "exit"
    /\ max_workers = 1
    /\ Cardinality(Enrichments) >= 2

\* A step that submits nothing to the executor.
NoSubmit == Cardinality(DOMAIN futures') = Cardinality(DOMAIN futures)

\* C14: once the producer's call has ended with an exception, no further
\* enrichment task is submitted to the executor.
C14_NoDispatchAfterProducerFailure ==
    [][ProducerFailed => NoSubmit]_vars

\* What the code does keep of C14: nothing is submitted once the raise has left
\* the loop.
NoDispatchAfterRaise ==
    [][(pc \in {"raising", "fatal"}) => NoSubmit]_vars

\* The EpisodeInfo the enrichment tasks were submitted with, in order of submission.
Dispatched == [i \in 1..Cardinality(Enrichments) |-> futures[i].args]

\* How many enrichment tasks were submitted with episode_info.
TasksFor(episode_info) ==
    Cardinality({ f \in Enrichments : futures[f].args = episode_info })

\* C15: the items dispatched so far followed by those on the queue are the
\* items emitted, in order, so no item is dispatched twice; and when the loop of
\* a run whose producer returned has ended, every emitted item has been
\* dispatched to exactly one enrichment task.
C15_ConsumedExactlyOnce ==
    /\ Dispatched \o episode_queue = emitted
    /\ \A i \in 1..Len(emitted) : TasksFor(emitted[i]) <= 1
    /\ (LoopEnded /\ ProducerReturned) =>
          /\ episode_queue = << >>
          /\ \A i \in 1..Len(emitted) : TasksFor(emitted[i]) = 1

\* C15 witness: the loop of a run whose producer returned has ended with three
\* items emitted and three tasks dispatched.
C15_Witness ==
    /\ pc = "exit"
    /\ ProducerReturned
    /\ Len(emitted) = 3
    /\ Cardinality(Enrichments) = 3

\* A step of a worker thread: a call starts or ends, or the producer puts an item.
WorkerThreadStep ==
    \/ (DOMAIN futures' = DOMAIN futures /\ futures' # futures)
    \/ emitted' # emitted

\* s2 is s1 with one entry appended.
OneAppended(s1, s2) == Len(s2) = Len(s1) + 1 /\ SubSeq(s2, 1, Len(s1)) = s1

\* The step appends one entry to exactly one of the two result lists.
ResultAppended ==
    \/ OneAppended(processed_episodes, processed_episodes') /\ failed_episodes' = failed_episodes
    \/ OneAppended(failed_episodes, failed_episodes') /\ processed_episodes' = processed_episodes

\* The step reorders processed_episodes and changes nothing else of the results.
ResultReordered ==
    /\ failed_episodes' = failed_episodes
    /\ Len(processed_episodes') = Len(processed_episodes)
    /\ Range(processed_episodes') = Range(processed_episodes)

\* The step inserts one entry into the registry, or removes one.
RegistryInserted ==
    \E f \in DOMAIN future_to_episode' :
        /\ f \notin DOMAIN future_to_episode
        /\ Pop(future_to_episode', f) = future_to_episode
RegistryRemoved ==
    \E f \in DOMAIN future_to_episode : future_to_episode' = Pop(future_to_episode, f)

\* The registry and the queue change as the claim says.
RegistryAndQueueFrame ==
    /\ WorkerThreadStep => UNCHANGED << resultVars, future_to_episode >>
    /\ future_to_episode' # future_to_episode =>
          \/ pc = "take" /\ RegistryInserted
          \/ pc = "process" /\ RegistryRemoved
    /\ episode_queue' # episode_queue =>
          \/ /\ ProducerRunning
             /\ OneAppended(episode_queue, episode_queue')
             /\ OneAppended(emitted, emitted')
             /\ UNCHANGED << pc, done >>
          \/ /\ pc = "take"
             /\ episode_queue' = Tail(episode_queue)
             /\ emitted' = emitted

\* C16: the result lists change only by an append in the control task's
\* completion-draining step, the registry only by the control task's insert on
\* dispatch and remove on completion-drain, no step of the producer or of an
\* enrichment task changes either, and the queue is written only by the
\* producer and read only by the control task.
C16_OnlyDrainAppends ==
    [][ /\ RegistryAndQueueFrame
        /\ resultVars' # resultVars => (pc = "process" /\ ResultAppended) ]_vars

\* C16 as amended: the same, with the one further change the control task makes
\* to a result list: after the loop it sorts processed_episodes in place.
C16_OnlyControlTaskWrites ==
    [][ /\ RegistryAndQueueFrame
        /\ resultVars' # resultVars =>
              \/ pc = "process" /\ ResultAppended
              \/ pc = "assemble" /\ ResultReordered ]_vars

\* C16 witness: an enrichment task has ended with its Episode and the result
\* lists do not hold it yet; its entry waits in the registry.
C16_Witness ==
    \E f \in Succeeded :
        /\ f \in DOMAIN future_to_episode
        /\ EntriesFor(processed_episodes, futures[f].args) = 0

\* C17: the producer takes one slot of the pool: no more than max_workers calls
\* execute at once, the producer's among them, so beside a running producer at
\* most max_workers - 1 enrichment tasks execute, and with a pool of width 1 no
\* enrichment task starts before the producer has finished.
C17_ProducerTakesASlot ==
    /\ Cardinality(Running) <= max_workers
    /\ ProducerRunning => Cardinality(Running \cap Enrichments) <= max_workers - 1
    /\ (max_workers = 1 /\ ~Finished(ProducerFuture)) =>
          \A f \in Enrichments : futures[f].state = "pending"

\* C17 witness: in a pool of width 1 the producer runs and two submitted
\* enrichment tasks wait behind it.
C17_Witness ==
    /\ max_workers = 1
    /\ ProducerRunning
    /\ Cardinality(Enrichments) >= 2
    /\ \A f \in Enrichments : futures[f].state = "pending"

\* C18: whenever the control task is about to execute episode_queue.get(), the
\* queue is not empty, whatever the producer has done since the empty() test.
C18_GetNeverBlocks ==
    pc = "take" => episode_queue # << >>

\* C18 witness: the control task is about to take while the producer is still
\* running and has put a second item since the test.
C18_Witness ==
    /\ pc = "take"
    /\ ProducerRunning
    /\ Len(episode_queue) >= 2

\* The producer's entry has been removed from the registry.
Draining == ProducerFuture \notin DOMAIN future_to_episode

\* C19: once the producer's entry has been removed from the registry, the queue
\* is empty and stays empty, every emitted item has been dispatched, no further
\* task is submitted and the registry never grows again.
C19_DrainingOnlyShrinks ==
    /\ [](Draining =>
            /\ ProducerReturned
            /\ episode_queue = << >>
            /\ pc # "take"
            /\ Cardinality(Enrichments) = Len(emitted))
    /\ [][Draining =>
            /\ Draining'
            /\ episode_queue' = << >>
            /\ NoSubmit
            /\ DOMAIN future_to_episode' \subseteq DOMAIN future_to_episode ]_vars

\* C19 witness: the producer's entry is gone and two enrichment tasks are still
\* in the registry, one of them unfinished.
C19_Witness ==
    /\ Draining
    /\ Cardinality(DOMAIN future_to_episode) >= 2
    /\ \E f \in DOMAIN future_to_episode : ~Finished(f)

\* How many entries of the two result lists together carry index i.
RecordedWithIndex(i) ==
    Cardinality({ k \in 1..Len(processed_episodes) : processed_episodes[k][1].index = i })
        + Cardinality({ k \in 1..Len(failed_episodes) : failed_episodes[k][1].index = i })

\* C20: every WorkItem index occurs at most once in processed_episodes and
\* failed_episodes taken together, and only for a task that has finished and
\* left the registry: no future is processed twice.
C20_RecordedAtMostOnce ==
    /\ \A i \in Range(IndicesOf(emitted)) : RecordedWithIndex(i) <= 1
    /\ Len(processed_episodes) + Len(failed_episodes)
          = Cardinality({ f \in Enrichments : Finished(f) /\ f \notin DOMAIN future_to_episode })

\* C20 witness: a success and a failure have been recorded, three entries in all.
C20_Witness ==
    /\ Len(processed_episodes) >= 1
    /\ Len(failed_episodes) >= 1
    /\ Len(processed_episodes) + Len(failed_episodes) = 3

====
